---------------------------- MODULE Spec2Model ----------------------------
(***************************************************************************)
(* A model of the two cleaners of the repository:                          *)
(*   - the class IntelligentDataCleaner of main.py (detect_column_types,   *)
(*     perform_eda, clean_data), an object that keeps col_types and        *)
(*     eda_report between calls;                                           *)
(*   - the functions of auto_eda_cleaner.py (detect_column_types,          *)
(*     perform_eda, auto_clean_dataset), which keep nothing.               *)
(* A DataFrame is a record [cols, dtype, rows]; a cell is a tagged record. *)
(* The pandas operations the code calls are modelled by what they return   *)
(* on the cells of the model (NaN handling included).                      *)
(***************************************************************************)
EXTENDS Integers, Sequences, FiniteSets, TLC

VARIABLES
    df,          \* the DataFrame the caller holds and passes to the calls
    col_types,   \* IntelligentDataCleaner.col_types (a dict)
    eda_report,  \* IntelligentDataCleaner.eda_report (a dict)
    last         \* what the latest call did: argument, result, log, ...

vars == <<df, col_types, eda_report, last>>

----------------------------------------------------------------------------
(* Bounds of the model                                                     *)

\* the largest number of rows of an input table
MaxRows == 3
\* the largest number of rows of a table loaded while a cleaner is reused
MaxSessionRows == 2
\* the largest number of labels and of absent cells after them in column "b"
\* of a table of labels, of cells of a table of city names, and of objects
\* at the end of either
MaxLabelRows == 4
MaxAbsent == 2
MaxCityRows == 4
MaxObjects == 1

----------------------------------------------------------------------------
(* Cells                                                                   *)

NaN == [k |-> "nan"]                 \* numpy.nan / None: the absent value
NaT == [k |-> "nat"]                 \* pandas.NaT, inside a datetime64 column
Num(n) == [k |-> "num", v |-> n]     \* a number of a numeric column
Str(s) == [k |-> "str", v |-> s]     \* a Python str of an object column
Ts(d) == [k |-> "ts", v |-> d]       \* a Timestamp: day d of January 2023, 00:00
Obj(s) == [k |-> "obj", v |-> s]     \* another Python object of an object column

\* Series.isnull() on one cell
IsNull(x) == x.k \in {"nan", "nat"}

\* a string of 50 characters or more; every other string of the model is
\* shorter (StrOrder lists them all)
LongText == "a free text of fifty characters or more ..........."

\* len(s) < 50, for the strings of the model
ShortStr(s) == s # LongText

\* dateutil / pandas date parsing of one string: the day of January 2023 it
\* names, or 0 when the string is no date
ParseDay(s) ==
    CASE s = "2023-01-01" -> 1
      [] s = "2023-01-02" -> 2
      [] s = "2023-01-03" -> 3
      [] s = "2023-01-04" -> 4
      [] OTHER -> 0

\* Timestamp.strftime('%Y-%m-%d') of day d of January 2023
Strftime(d) ==
    CASE d = 1 -> "2023-01-01"
      [] d = 2 -> "2023-01-02"
      [] d = 3 -> "2023-01-03"
      [] d = 4 -> "2023-01-04"

\* str.strip() on the strings of the model
Strip(s) ==
    CASE s = " bob " -> "bob"
      [] s = " Paris " -> "Paris"
      [] OTHER -> s

\* str.title() on the strings of the model
Title(s) ==
    CASE s = "alice" -> "Alice"
      [] s = "bob" -> "Bob"
      [] s = " bob " -> " Bob "
      [] s = "new york" -> "New York"
      [] s = "unknown" -> "Unknown"
      [] s = "nan" -> "Nan"
      [] s = "obj" -> "Obj"
      [] s = LongText -> "A Free Text Of Fifty Characters Or More ..........."
      [] OTHER -> s

\* str(x) of one cell of an object column (Series.astype(str))
AsStr(x) ==
    CASE x.k = "str" -> x.v
      [] x.k = "nan" -> "nan"
      [] x.k = "obj" -> x.v

----------------------------------------------------------------------------
(* DataFrames                                                              *)

\* the columns of the input tables: "a" was loaded with a numeric dtype
\* (float64), "b" with dtype object
DtypeOf(c) == IF c = "a" THEN "num" ELSE "obj"

Range(s) == {s[i] : i \in 1..Len(s)}

Frame(cols, rows) ==
    [cols |-> cols, dtype |-> [c \in Range(cols) |-> DtypeOf(c)], rows |-> rows]

EmptyFrame == Frame(<<>>, <<>>)

\* len(df)
NRows(t) == Len(t.rows)
\* len(df.columns)
NCols(t) == Len(t.cols)
\* df[c] as a sequence of cells
Column(t, c) == [i \in 1..NRows(t) |-> t.rows[i][c]]
\* df[c].isnull().sum()
NullCount(s) == Cardinality({i \in 1..Len(s) : IsNull(s[i])})

\* df[c] = values, in place; dt is the dtype of the new column
SetColumn(t, c, values, dt) ==
    [cols |-> t.cols,
     dtype |-> [t.dtype EXCEPT ![c] = dt],
     rows |-> [i \in 1..NRows(t) |-> [t.rows[i] EXCEPT ![c] = values[i]]]]

\* the rows of s whose index is in keep, in their order
RECURSIVE PickFrom(_, _, _)
PickFrom(s, keep, i) ==
    IF i > Len(s) THEN <<>>
    ELSE (IF i \in keep THEN <<s[i]>> ELSE <<>>) \o PickFrom(s, keep, i + 1)
Pick(s, keep) == PickFrom(s, keep, 1)


----------------------------------------------------------------------------
(* The pandas operations the cleaners call                                 *)

\* DataFrame.duplicated(): the indexes of the rows equal (NaN equal to NaN)
\* to an earlier row; an empty frame (no rows or no columns) has none
Duplicated(t) ==
    IF NRows(t) = 0 \/ NCols(t) = 0 THEN {}
    ELSE {i \in 1..NRows(t) : \E j \in 1..(i - 1) : t.rows[j] = t.rows[i]}

\* drop_duplicates(keep='last'): the last occurrence of each row survives
DropDuplicatesKeepLast(t) ==
    [t EXCEPT !.rows = Pick(t.rows,
        {i \in 1..NRows(t) : \A j \in (i + 1)..NRows(t) : t.rows[j] # t.rows[i]})]

\* a deduplication that stops after the first duplicate it removes
DropOneDuplicate(t) ==
    LET dup == Duplicated(t)
        one == IF dup = {} THEN {}
               ELSE {CHOOSE i \in dup : \A j \in dup : i <= j}
    IN  [t EXCEPT !.rows = Pick(t.rows, (1..NRows(t)) \ one)]

\* DataFrame.drop_duplicates(ignore_index=True): keep='first'
DropDuplicates(t) ==
    [t EXCEPT !.rows = Pick(t.rows, (1..NRows(t)) \ Duplicated(t))]

\* Series.fillna(v); fillna(NaN) changes nothing
FillNa(s, v) == [i \in 1..Len(s) |-> IF IsNull(s[i]) THEN v ELSE s[i]]

\* the non-null integers of a numeric or datetime64 column
Present(s) == {i \in 1..Len(s) : ~IsNull(s[i])}

\* the k-th smallest of the non-null values of s
Kth(s, k) ==
    LET P == Present(s)
    IN  CHOOSE v \in {s[i].v : i \in P} :
            /\ Cardinality({i \in P : s[i].v < v}) < k
            /\ Cardinality({i \in P : s[i].v <= v}) >= k

\* Series.median() as a number: the middle value, or the mean of the two
\* middle values; the numbers of the model are even, so the mean is whole
MedianValue(s) ==
    LET n == Cardinality(Present(s))
    IN  IF n % 2 = 1 THEN Kth(s, (n + 1) \div 2)
        ELSE (Kth(s, n \div 2) + Kth(s, n \div 2 + 1)) \div 2

\* a fill by the lower of the two middle values instead of their mean
MedianLower(s) ==
    IF Present(s) = {} THEN NaN
    ELSE Num(Kth(s, (Cardinality(Present(s)) + 1) \div 2))

\* Series.median() of a numeric column: NaN when every value is absent
Median(s) == IF Present(s) = {} THEN NaN ELSE Num(MedianValue(s))

\* Series.median() of a datetime64 column: NaT when every value is NaT; the
\* mean of two middle timestamps may fall at noon, which strftime drops
MedianTs(s) == IF Present(s) = {} THEN NaT ELSE Ts(MedianValue(s))

\* pandas.to_datetime(s, errors='coerce') raises all the same on a column
\* holding objects it cannot convert (Obj cells)
ToDatetimeRaises(s) == \E i \in 1..Len(s) : s[i].k = "obj"

\* pandas.to_datetime(s, errors='coerce'): what does not parse becomes NaT
ToDatetime(s) ==
    [i \in 1..Len(s) |->
        CASE s[i].k = "ts" -> s[i]
          [] s[i].k = "str" /\ ParseDay(s[i].v) > 0 -> Ts(ParseDay(s[i].v))
          [] OTHER -> NaT]

\* Series.dt.strftime('%Y-%m-%d'): NaT becomes NaN
DtStrftime(s) ==
    [i \in 1..Len(s) |-> IF IsNull(s[i]) THEN NaN ELSE Str(Strftime(s[i].v))]

\* Python's order of the strings of the model (code points)
StrOrder == <<" Paris ", " bob ", "2023-01-01", "2023-01-02", "2023-01-03",
              "2023-01-04", "A", "Alice", "B", "Bob", "New York", "Paris",
              "Unknown", LongText, "alice", "bob", "nan", "new york", "obj">>
StrRank(x) == CHOOSE i \in 1..Len(StrOrder) : StrOrder[i] = x

\* Series.mode(): the most frequent non-null values, sorted; the empty
\* sequence when every value is absent. ModeFirst is mode()[0].
ModeSet(s) ==
    LET P == Present(s)
        Count(v) == Cardinality({i \in P : s[i] = v})
    IN  {s[i] : i \in {j \in P : \A m \in P : Count(s[m]) <= Count(s[j])}}
\* the modes the way the hash table yields them, before the sort: the one
\* met first in the column
ModeUnsorted(s) ==
    LET first == CHOOSE i \in Present(s) :
                     /\ s[i] \in ModeSet(s)
                     /\ \A j \in Present(s) : s[j] \in ModeSet(s) => i <= j
    IN  s[first]
\* the first of the sorted modes
ModeSorted(s) ==
    CHOOSE v \in ModeSet(s) : \A u \in ModeSet(s) : StrRank(v.v) <= StrRank(u.v)
\* mode()[0]: the modes are sorted, unless they cannot be compared (a str and
\* another object: TypeError, "Unable to sort modes"), and then left as met
ModeFirst(s) ==
    IF \E v \in ModeSet(s) : v.k # "str" THEN ModeUnsorted(s) ELSE ModeSorted(s)

\* Series.nunique(): the number of distinct non-null values
NUnique(s) == Cardinality({s[i] : i \in Present(s)})

----------------------------------------------------------------------------
(* Column type detection                                                   *)

Kinds == <<"numeric", "datetime", "categorical", "text">>

\* a detection that leaves a column under 'text' once the cleaner holds it
\* there from an earlier call
ColumnKindKept(t, c) ==
    IF "text" \in DOMAIN col_types /\ c \in Range(col_types["text"]) THEN "text"
    ELSE IF t.dtype[c] = "num" THEN "numeric"
    ELSE IF \A i \in 1..NRows(t) : t.rows[i][c].k = "str" /\ ShortStr(t.rows[i][c].v)
         THEN "datetime"
    ELSE "text"

\* the body of the loop of detect_column_types for column c (the same in
\* main.py and in auto_eda_cleaner.py)
ColumnKind(t, c) ==
    LET s == Column(t, c)
    IN  IF t.dtype[c] = "num" THEN "numeric"
        ELSE IF t.dtype[c] = "dt" THEN "datetime"
        ELSE IF ~ToDatetimeRaises(s)
             THEN IF \A i \in 1..Len(s) : s[i].k = "str" /\ ShortStr(s[i].v)
                  THEN "datetime"
                  ELSE "text"
        ELSE IF 2 * NUnique(s) < NRows(t) THEN "categorical"
        ELSE "text"

\* a detection whose second test is an if, not an elif: a column listed as
\* numeric goes through the else branch too
ColumnTypesTwice(t) ==
    [kind \in Range(Kinds) |->
        SelectSeq(t.cols, LAMBDA c : ColumnKind(t, c) = kind
                                       \/ (kind = "text" /\ t.dtype[c] = "num"))]

\* the dict detect_column_types builds: for each kind, the list of its columns
ColumnTypes(t) ==
    [kind \in Range(Kinds) |->
        SelectSeq(t.cols, LAMBDA c : ColumnKind(t, c) = kind)]

\* IntelligentDataCleaner.__init__: self.col_types = {}
EmptyDict == [kind \in {} |-> <<>>]

----------------------------------------------------------------------------
(* A cleaning run                                                          *)
(* The state of a run is a record r:                                       *)
(*   t       the DataFrame the local name df is bound to                   *)
(*   own     whether that DataFrame is another object than the caller's    *)
(*   caller  the DataFrame object the caller passed, as it is now          *)
(*   log     the messages printed so far, as records                       *)
(*   raised  whether an exception has left the function                    *)

Entry(stage, col, n, val) == [stage |-> stage, col |-> col, n |-> n, val |-> val]

StartRun(arg) ==
    [t |-> arg, own |-> FALSE, caller |-> arg, log |-> <<>>, raised |-> FALSE]

\* df[c] = ...: a write into the object df is bound to, which is the caller's
\* object unless df was rebound to a new one
InPlace(r, t) ==
    [r EXCEPT !.t = t, !.caller = IF r.own THEN r.caller ELSE t]

\* the same operations working in place (inplace=True, no copy): df stays
\* bound to the object it was bound to
NewObjectInPlace(r, t) == InPlace(r, t)

\* df = df.copy(), df = df.drop_duplicates(...), df = df.drop(...): each binds
\* df to a new object holding t and leaves the object it was bound to alone
NewObject(r, t) == [r EXCEPT !.t = t, !.own = TRUE]

Say(r, e) == [r EXCEPT !.log = Append(r.log, e)]

Raise(r) == [r EXCEPT !.raised = TRUE]

\* stage 1 of both cleaners: count the duplicates, drop them, report
Deduplicate(r) ==
    LET duplicates == Cardinality(Duplicated(r.t))
        r1 == NewObject(r, DropDuplicates(r.t))
    IN  IF duplicates > 0 THEN Say(r1, Entry("dedup", "-", duplicates, NaN))
        ELSE r1

\* a numeric repair that drops the rows with an absent value instead of
\* filling them (dropna(subset=[c]))
NumericStepDropna(r, c) ==
    IF r.raised THEN r
    ELSE IF c \notin Range(r.t.cols) THEN Raise(r)
    ELSE LET s == Column(r.t, c)
             missing == NullCount(s)
         IN  IF missing = 0 THEN r
             ELSE Say(NewObject(r, [r.t EXCEPT !.rows = Pick(r.t.rows, Present(s))]),
                      Entry("numeric", c, missing, NaN))

\* stage 2, for one column of col_types['numeric']
NumericStep(r, c) ==
    IF r.raised THEN r
    ELSE IF c \notin Range(r.t.cols) THEN Raise(r)            \* KeyError
    ELSE LET s == Column(r.t, c)
             missing == NullCount(s)
         IN  IF missing = 0 THEN r
             ELSE IF r.t.dtype[c] # "num" /\ Present(s) # {}
                  THEN Raise(r)              \* median of strings: TypeError
             ELSE LET fill_val == Median(s)
                  IN  Say(InPlace(r, SetColumn(r.t, c, FillNa(s, fill_val),
                                               r.t.dtype[c])),
                          Entry("numeric", c, missing, fill_val))

\* a standardisation that title-cases without trimming
TitleUntrimmed(s) == [i \in 1..Len(s) |-> Str(Title(AsStr(s[i])))]

\* .astype(str).str.strip().str.title() on a column
StripTitle(s) == [i \in 1..Len(s) |-> Str(Title(Strip(AsStr(s[i]))))]

\* .astype(str).str.strip() on a column
StripOnly(s) == [i \in 1..Len(s) |-> Str(Strip(AsStr(s[i])))]

\* stage 3, for one column of col_types['categorical']
CategoricalStep(r, c) ==
    IF r.raised THEN r
    ELSE IF c \notin Range(r.t.cols) THEN Raise(r)            \* KeyError
    ELSE LET s == Column(r.t, c)
             missing == NullCount(s)
             fill_val == IF ModeSet(s) # {} THEN ModeFirst(s) ELSE Str("Unknown")
             r1 == IF missing > 0
                   THEN Say(InPlace(r, SetColumn(r.t, c, FillNa(s, fill_val),
                                                 "obj")),
                            Entry("categorical", c, missing, fill_val))
                   ELSE r
         IN  IF r1.t.dtype[c] = "obj"
             THEN InPlace(r1, SetColumn(r1.t, c, StripTitle(Column(r1.t, c)),
                                        "obj"))
             ELSE r1

\* stage 4 of clean_data (main.py), for one column of col_types['datetime']:
\* the whole body is inside try/except, a KeyError included
DatetimeStep(r, c) ==
    IF r.raised THEN r
    ELSE IF c \notin Range(r.t.cols) \/ ToDatetimeRaises(Column(r.t, c))
         THEN Say(r, Entry("could not parse", c, 0, NaN))
    ELSE LET parsed == ToDatetime(Column(r.t, c))
             missing == NullCount(parsed)
             filled == IF missing > 0 THEN FillNa(parsed, MedianTs(parsed))
                       ELSE parsed
             r1 == InPlace(r, SetColumn(r.t, c, DtStrftime(filled), "obj"))
         IN  IF missing > 0 THEN Say(r1, Entry("datetime", c, missing, NaN))
             ELSE r1

\* stage 4 of auto_clean_dataset, for one column of col_types['datetime']:
\* missing is counted before the conversion
AutoDatetimeStep(r, c) ==
    IF r.raised THEN r
    ELSE IF c \notin Range(r.t.cols) THEN Raise(r)            \* KeyError
    ELSE LET missing == NullCount(Column(r.t, c))
         IN  IF ToDatetimeRaises(Column(r.t, c))
             THEN Say(r, Entry("could not parse", c, 0, NaN))
             ELSE LET parsed == ToDatetime(Column(r.t, c))
                      filled == IF missing > 0
                                THEN FillNa(parsed, MedianTs(parsed))
                                ELSE parsed
                      r1 == IF missing > 0
                            THEN Say(InPlace(r, SetColumn(r.t, c, filled, "dt")),
                                     Entry("datetime", c, missing, NaN))
                            ELSE InPlace(r, SetColumn(r.t, c, filled, "dt"))
                  IN  InPlace(r1, SetColumn(r1.t, c, DtStrftime(filled), "obj"))

\* stage 5, for one column of col_types['text']
TextStep(r, c) ==
    IF r.raised THEN r
    ELSE IF c \notin Range(r.t.cols) THEN Raise(r)            \* KeyError
    ELSE LET s == Column(r.t, c)
             missing == NullCount(s)
             r1 == IF missing > 0
                   THEN Say(InPlace(r, SetColumn(r.t, c,
                                                 FillNa(s, Str("Unknown")),
                                                 "obj")),
                            Entry("text", c, missing, Str("Unknown")))
                   ELSE r
         IN  IF r1.t.dtype[c] = "obj"
             THEN InPlace(r1, SetColumn(r1.t, c, StripOnly(Column(r1.t, c)),
                                        "obj"))
             ELSE r1

\* df.isnull().sum(axis=1) / len(df.columns) > 0.5, for row i of t; with no
\* column the quotient is NaN and the comparison false
RowMissingOverHalf(t, i) ==
    2 * Cardinality({c \in Range(t.cols) : IsNull(t.rows[i][c])}) > NCols(t)

\* stage 6: drop the rows of df more than half of whose cells are absent now
PruneRows(r) ==
    IF r.raised THEN r
    ELSE LET rows_drop == {i \in 1..NRows(r.t) : RowMissingOverHalf(r.t, i)}
         IN  IF rows_drop # {}
             THEN Say(NewObject(r, [r.t EXCEPT !.rows =
                                       Pick(r.t.rows, (1..NRows(r.t)) \ rows_drop)]),
                      Entry("prune", "-", Cardinality(rows_drop), NaN))
             ELSE r

\* stage 2: for col in col_types['numeric'], KeyError on an empty dict
NumericStage(r, types) ==
    IF r.raised THEN r
    ELSE IF "numeric" \notin DOMAIN types THEN Raise(r)
    ELSE LET cols == types["numeric"]
             f[i \in 0..Len(cols)] ==
                 IF i = 0 THEN r ELSE NumericStep(f[i - 1], cols[i])
         IN  f[Len(cols)]

\* stage 3: for col in col_types['categorical'], KeyError on an empty dict
CategoricalStage(r, types) ==
    IF r.raised THEN r
    ELSE IF "categorical" \notin DOMAIN types THEN Raise(r)
    ELSE LET cols == types["categorical"]
             f[i \in 0..Len(cols)] ==
                 IF i = 0 THEN r ELSE CategoricalStep(f[i - 1], cols[i])
         IN  f[Len(cols)]

\* stage 4 of clean_data: for col in col_types['datetime'], KeyError on an empty dict
DatetimeStage(r, types) ==
    IF r.raised THEN r
    ELSE IF "datetime" \notin DOMAIN types THEN Raise(r)
    ELSE LET cols == types["datetime"]
             f[i \in 0..Len(cols)] ==
                 IF i = 0 THEN r ELSE DatetimeStep(f[i - 1], cols[i])
         IN  f[Len(cols)]

\* stage 4 of auto_clean_dataset: for col in col_types['datetime'], KeyError on an empty dict
AutoDatetimeStage(r, types) ==
    IF r.raised THEN r
    ELSE IF "datetime" \notin DOMAIN types THEN Raise(r)
    ELSE LET cols == types["datetime"]
             f[i \in 0..Len(cols)] ==
                 IF i = 0 THEN r ELSE AutoDatetimeStep(f[i - 1], cols[i])
         IN  f[Len(cols)]

\* stage 5: for col in col_types['text'], KeyError on an empty dict
TextStage(r, types) ==
    IF r.raised THEN r
    ELSE IF "text" \notin DOMAIN types THEN Raise(r)
    ELSE LET cols == types["text"]
             f[i \in 0..Len(cols)] ==
                 IF i = 0 THEN r ELSE TextStep(f[i - 1], cols[i])
         IN  f[Len(cols)]

\* what a run leaves behind: the value returned (none when raised), the
\* caller's object, the log, the table after stage 1 and after stage 5, and
\* the classification the stages used
Outcome(r, afterDedup, afterRepair, types) ==
    [raised |-> r.raised, out |-> r.t, caller |-> r.caller, log |-> r.log,
     dedup |-> afterDedup.t, repaired |-> afterRepair.t,
     reachedPrune |-> ~afterRepair.raised, used |-> types]

\* IntelligentDataCleaner.clean_data(df), the object's col_types being types
clean_data(arg, types) ==
    LET r0 == NewObject(StartRun(arg), arg)             \* df = df.copy()
        r1 == Deduplicate(r0)
        r2 == NumericStage(r1, types)
        r3 == CategoricalStage(r2, types)
        r4 == DatetimeStage(r3, types)
        r5 == TextStage(r4, types)
        r6 == PruneRows(r5)
    IN  Outcome(r6, r1, r5, types)

\* auto_clean_dataset(df) of auto_eda_cleaner.py
auto_clean_dataset(arg) ==
    LET r0 == NewObject(StartRun(arg), arg)             \* df = df.copy()
        types == ColumnTypes(r0.t)                      \* detect_column_types(df)
        r1 == Deduplicate(r0)
        r2 == NumericStage(r1, types)
        r3 == CategoricalStage(r2, types)
        r4 == AutoDatetimeStage(r3, types)
        r5 == TextStage(r4, types)
        r6 == PruneRows(r5)
    IN  Outcome(r6, r1, r5, types)

\* the table df is bound to after each of the six stages of clean_data(arg),
\* the object's col_types being types
StagesOfClean(arg, types) ==
    LET r0 == NewObject(StartRun(arg), arg)
        r1 == Deduplicate(r0)
        r2 == NumericStage(r1, types)
        r3 == CategoricalStage(r2, types)
        r4 == DatetimeStage(r3, types)
        r5 == TextStage(r4, types)
        r6 == PruneRows(r5)
    IN  <<r1.t, r2.t, r3.t, r4.t, r5.t, r6.t>>

\* the table df is bound to after each of the six stages of
\* auto_clean_dataset(arg)
StagesOfAutoClean(arg) ==
    LET r0 == NewObject(StartRun(arg), arg)
        types == ColumnTypes(r0.t)
        r1 == Deduplicate(r0)
        r2 == NumericStage(r1, types)
        r3 == CategoricalStage(r2, types)
        r4 == AutoDatetimeStage(r3, types)
        r5 == TextStage(r4, types)
        r6 == PruneRows(r5)
    IN  <<r1.t, r2.t, r3.t, r4.t, r5.t, r6.t>>

----------------------------------------------------------------------------
(* The quality score                                                       *)
(* A float is NaN or an exact fraction n/d in lowest terms, d > 0; the     *)
(* rounding of the floating-point operations is not modelled.              *)

RECURSIVE Gcd(_, _)
Gcd(x, y) == IF y = 0 THEN x ELSE Gcd(y, x % y)
Abs(x) == IF x < 0 THEN -x ELSE x

FNaN == [k |-> "nan"]
Q(n, d) == LET g == Gcd(Abs(n), d) IN [k |-> "q", n |-> n \div g, d |-> d \div g]
FInt(n) == Q(n, 1)

\* numpy's x / y for integers x >= 0, y >= 0: 0 / 0 is nan (a RuntimeWarning,
\* not an exception); x / 0 with x > 0 does not occur (x counts cells or rows
\* of a frame with y cells or rows)
NpDiv(x, y) ==
    CASE y > 0 -> Q(x, y)
      [] y = 0 /\ x = 0 -> FNaN

FSub(x, y) ==
    IF x.k = "nan" \/ y.k = "nan" THEN FNaN
    ELSE Q(x.n * y.d - y.n * x.d, x.d * y.d)
FMul(x, y) ==
    IF x.k = "nan" \/ y.k = "nan" THEN FNaN ELSE Q(x.n * y.n, x.d * y.d)
\* x < y: False when either is NaN
FLt(x, y) == x.k = "q" /\ y.k = "q" /\ x.n * y.d < y.n * x.d

\* a score left unclamped below: max(0, b) taken to be b
PyMaxUnclamped(a, b) == b

\* Python's max(a, b) and min(a, b): a, unless b compares greater (smaller)
PyMax(a, b) == IF FLt(a, b) THEN b ELSE a
PyMin(a, b) == IF FLt(b, a) THEN b ELSE a

\* df.isnull().sum(): the number of absent cells of each column
MissingByColumn(t) == [c \in Range(t.cols) |-> NullCount(Column(t, c))]
\* missing.sum()
MissingTotal(t) ==
    Cardinality({<<i, c>> \in (1..NRows(t)) \X Range(t.cols) : IsNull(t.rows[i][c])})

Max(x, y) == IF x >= y THEN x ELSE y

\* a score whose duplicate penalty is a percentage (* 100) instead of * 10
QualityScorePercent(t) ==
    LET duplicates == Cardinality(Duplicated(t))
        q1 == FMul(FSub(FInt(1), NpDiv(MissingTotal(t), NRows(t) * NCols(t))),
                   FInt(100))
        q2 == FSub(q1, FMul(NpDiv(duplicates, Max(NRows(t), 1)), FInt(100)))
    IN  PyMax(FInt(0), PyMin(FInt(100), q2))

\* the quality score of IntelligentDataCleaner.perform_eda (main.py)
QualityScore(t) ==
    LET duplicates == Cardinality(Duplicated(t))
        q1 == FMul(FSub(FInt(1), NpDiv(MissingTotal(t), NRows(t) * NCols(t))),
                   FInt(100))
        q2 == FSub(q1, FMul(NpDiv(duplicates, Max(NRows(t), 1)), FInt(10)))
    IN  PyMax(FInt(0), PyMin(FInt(100), q2))

\* the quality score of perform_eda (auto_eda_cleaner.py)
AutoQualityScore(t) ==
    LET duplicates == Cardinality(Duplicated(t))
        q1 == FMul(FSub(FInt(1), NpDiv(MissingTotal(t), NRows(t) * NCols(t))),
                   FInt(100))
        q2 == FSub(q1, FMul(NpDiv(duplicates, NRows(t)), FInt(10)))
    IN  PyMax(FInt(0), q2)

Report(t, score) ==
    [shape |-> <<NRows(t), NCols(t)>>, missing |-> MissingByColumn(t),
     duplicates |-> Cardinality(Duplicated(t)), quality_score |-> score]

\* IntelligentDataCleaner.perform_eda(df): the report it returns and keeps
perform_eda(t) == Report(t, QualityScore(t))

\* perform_eda(df) of auto_eda_cleaner.py: the report it returns
auto_perform_eda(t) == Report(t, AutoQualityScore(t))

----------------------------------------------------------------------------
(* The input tables                                                        *)

\* the sequences of at most n elements of S
SeqsUpTo(S, n) == UNION {[1..m -> S] : m \in 0..n}

\* the tables with columns cols, cells drawn from cells[c], at most n rows
TablesOf(cols, cells, n) ==
    LET Rows == {row \in [Range(cols) -> UNION {cells[c] : c \in Range(cols)}] :
                    \A c \in Range(cols) : row[c] \in cells[c]}
    IN  {Frame(cols, rows) : rows \in SeqsUpTo(Rows, n)}

\* the cells of the one-column tables and of the two-column tables
NumCells == {NaN, Num(2), Num(4)}
ObjCells == {NaN, Str("2023-01-01"), Str("2023-01-03"), Str("alice")}
WideCells == [a |-> {NaN, Num(2)},
              b |-> {NaN, Str("2023-01-01"), Str("alice")}]

\* every input table of Spec: no column and no row, one column, two columns
Tables ==
    {EmptyFrame}
      \cup TablesOf(<<"a">>, [a |-> NumCells], MaxRows)
      \cup TablesOf(<<"b">>, [b |-> ObjCells], MaxRows)
      \cup TablesOf(<<"a", "b">>, WideCells, MaxRows)

----------------------------------------------------------------------------
(* State and operations                                                    *)

NoCall == [op |-> "none", arg |-> EmptyFrame, raised |-> FALSE,
           out |-> EmptyFrame, caller |-> EmptyFrame, log |-> <<>>,
           dedup |-> EmptyFrame, repaired |-> EmptyFrame,
           reachedPrune |-> FALSE, used |-> EmptyDict,
           types |-> EmptyDict, held |-> EmptyDict, report |-> EmptyDict,
           eda_only |-> FALSE, use_ai |-> FALSE, found |-> FALSE,
           bound |-> "-", response |-> "-",
           ok |-> FALSE, steps |-> <<>>, files |-> {}]

Call(op, arg) == [NoCall EXCEPT !.op = op, !.arg = arg, !.caller = arg]

CleanCall(op, arg, o) ==
    [Call(op, arg) EXCEPT !.raised = o.raised, !.out = o.out,
                          !.caller = o.caller, !.log = o.log,
                          !.dedup = o.dedup, !.repaired = o.repaired,
                          !.reachedPrune = o.reachedPrune, !.used = o.used]

\* cleaner = IntelligentDataCleaner(); df = a table
Init ==
    /\ df \in Tables
    /\ col_types = EmptyDict
    /\ eda_report = EmptyDict
    /\ last = NoCall

\* cleaner.detect_column_types(df)
Detect ==
    /\ col_types' = ColumnTypes(df)
    /\ last' = [Call("detect", df) EXCEPT !.types = ColumnTypes(df),
                                          !.held = col_types]
    /\ UNCHANGED <<df, eda_report>>

\* cleaner.perform_eda(df)
Eda ==
    /\ eda_report' = perform_eda(df)
    /\ last' = [Call("eda", df) EXCEPT !.report = perform_eda(df)]
    /\ UNCHANGED <<df, col_types>>

\* cleaner.clean_data(df)
Clean ==
    LET o == clean_data(df, col_types)
    IN  /\ df' = o.caller
        /\ last' = CleanCall("clean", df, o)
        /\ UNCHANGED <<col_types, eda_report>>

\* auto_eda_cleaner.perform_eda(df)
AutoEda ==
    /\ last' = [Call("auto_eda", df) EXCEPT !.report = auto_perform_eda(df)]
    /\ UNCHANGED <<df, col_types, eda_report>>

\* auto_eda_cleaner.auto_clean_dataset(df)
AutoClean ==
    LET o == auto_clean_dataset(df)
    IN  /\ df' = o.caller
        /\ last' = CleanCall("auto_clean", df, o)
        /\ UNCHANGED <<col_types, eda_report>>

Next == Detect \/ Eda \/ Clean \/ AutoEda \/ AutoClean

\* one cleaner object and one table: every operation, in any order
Spec == Init /\ [][Next]_vars

----------------------------------------------------------------------------
(* One cleaner object used for several tables                              *)

SessionTables ==
    {EmptyFrame}
      \cup TablesOf(<<"a">>, WideCells, MaxSessionRows)
      \cup TablesOf(<<"b">>, WideCells, MaxSessionRows)
      \cup TablesOf(<<"a", "b">>, WideCells, MaxSessionRows)

InitSession ==
    /\ df \in SessionTables
    /\ col_types = EmptyDict
    /\ eda_report = EmptyDict
    /\ last = NoCall

\* df = cleaner.load_data(path): the caller holds another table
Load ==
    \E t \in SessionTables :
        /\ df' = t
        /\ last' = Call("load", t)
        /\ UNCHANGED <<col_types, eda_report>>

\* cleaner = IntelligentDataCleaner()
NewCleaner ==
    /\ col_types' = EmptyDict
    /\ eda_report' = EmptyDict
    /\ last' = Call("new", df)
    /\ UNCHANGED df

NextSession == Load \/ NewCleaner \/ Detect \/ Clean \/ AutoClean

SpecSession == InitSession /\ [][NextSession]_vars

----------------------------------------------------------------------------
(* Tables with a text column of few distinct values                        *)

\* a table of an id column "a" (1, 2, ...: no two rows are equal) and a
\* column "b" holding the cells bs
WithIds(bs) ==
    Frame(<<"a", "b">>, [i \in 1..Len(bs) |-> [a |-> Num(i), b |-> bs[i]]])

\* k cells holding an object pandas.to_datetime refuses to convert
Objects(k) == [j \in 1..k |-> Obj("obj")]

\* k absent cells
Absent(k) == [j \in 1..k |-> NaN]

LabelCells == {Str("B"), Str("A")}
CityCells == {NaN, Str("new york"), Str(" bob ")}

\* column "b": at most MaxLabelRows labels, then at most MaxAbsent absent
\* cells, then at most MaxObjects objects
LabelTables ==
    {WithIds(bs \o Absent(m) \o Objects(k)) :
        bs \in SeqsUpTo(LabelCells, MaxLabelRows),
        m \in 0..MaxAbsent, k \in 0..MaxObjects}

\* column "b": at most MaxCityRows names or absent cells in any order, then
\* at most MaxObjects objects
CityTables ==
    {WithIds(bs \o Objects(k)) :
        bs \in SeqsUpTo(CityCells, MaxCityRows), k \in 0..MaxObjects}

RepairTables == LabelTables \cup CityTables

\* the classifications an earlier detect_column_types may have left in the
\* cleaner: none, or that of a table of the same columns
EarlierTypes == {EmptyDict} \cup {ColumnTypes(t) : t \in RepairTables}

\* a cleaner that may have classified an earlier table, and a table
InitRepair ==
    /\ df \in RepairTables
    /\ col_types \in EarlierTypes
    /\ eda_report = EmptyDict
    /\ last = NoCall

NextRepair == Detect \/ Clean \/ AutoClean

SpecRepair == InitRepair /\ [][NextRepair]_vars

----------------------------------------------------------------------------
(* The command-line runs                                                   *)
(* A run is modelled whole. Its result is a record:                        *)
(*   ok      True returned (run_autoetl: the run reached its last line)    *)
(*   raised  an exception left the function                                *)
(*   steps   the functions the run called, in order                        *)
(*   files   what the run wrote: "cleaned", "visualization", "report"      *)
(*   out     cleaned_df, when the run has one                              *)
(*   caller  original_df as the run leaves it                              *)

RunResult(ok, raised, steps, files, out, original) ==
    [ok |-> ok, raised |-> raised, steps |-> steps, files |-> files,
     out |-> out, caller |-> original]

\* a run that ignores the --eda-only flag
NeverStopAfterEda(eda_only) == FALSE

\* if eda_only: ... return True
StopAfterEda(eda_only) == eda_only

\* run_autoetl_custom(input_path, output_path, eda_only, use_ai) of
\* run_pipeline.py: t is the table of the input file, found whether the
\* file exists, writable whether the cleaned CSV can be written, o what
\* auto_clean_dataset(original_df.copy()) does when the run calls it. With
\* use_ai the try and the except branch both call auto_clean_dataset.
run_autoetl_custom(t, o, found, eda_only, use_ai, writable) ==
    IF ~found THEN RunResult(FALSE, FALSE, <<>>, {}, EmptyFrame, t)
    ELSE IF StopAfterEda(eda_only)
         THEN RunResult(TRUE, FALSE, <<"load_data", "perform_eda">>, {},
                        EmptyFrame, t)
    ELSE LET called == <<"load_data", "perform_eda", "auto_clean_dataset">>
         IN  IF o.raised
             THEN RunResult(FALSE, TRUE,
                            IF use_ai THEN Append(called, "auto_clean_dataset")
                            ELSE called,
                            {}, EmptyFrame, t)
             ELSE IF ~writable
                  THEN RunResult(FALSE, FALSE, Append(called, "to_csv"), {},
                                 o.out, t)
             ELSE RunResult(TRUE, FALSE,
                            called \o <<"to_csv", "create_eda_visualizations",
                                        "summarize_cleaning">>,
                            {"cleaned", "visualization", "report"}, o.out, t)

\* main() of main.py: a new cleaner, load, detect, EDA, and unless --eda-only
\* clean, save, visualize, report; o is what cleaner.clean_data(df_original)
\* does when the run calls it
main(t, o, found, eda_only, writable) ==
    IF ~found THEN RunResult(FALSE, FALSE, <<"load_data">>, {}, EmptyFrame, t)
    ELSE IF StopAfterEda(eda_only)
         THEN RunResult(TRUE, FALSE,
                        <<"load_data", "detect_column_types", "perform_eda">>,
                        {}, EmptyFrame, t)
    ELSE LET called == <<"load_data", "detect_column_types", "perform_eda",
                         "clean_data">>
         IN  IF o.raised THEN RunResult(FALSE, TRUE, called, {}, EmptyFrame, o.caller)
             ELSE IF ~writable
                  THEN RunResult(FALSE, FALSE, Append(called, "save_results"),
                                 {}, o.out, o.caller)
             ELSE RunResult(TRUE, FALSE,
                            called \o <<"save_results", "create_visualizations",
                                        "generate_report">>,
                            {"cleaned", "visualization", "report"},
                            o.out, o.caller)

\* what sdf.chat and the configuration give ai_clean of ai_cleaner.py: no API
\* key, an exception of the service, an answer that is no DataFrame, a
\* DataFrame
Responses == {"no_key", "error", "not_a_table", "table"}

\* ai_clean(df) of ai_cleaner.py, the LLM-backed cleaner: raises without a
\* key or when the service fails, returns df itself when the answer is no
\* DataFrame, and otherwise saves and returns the answer (answer)
llm_ai_clean(t, response, answer) ==
    CASE response \in {"no_key", "error"} -> [raised |-> TRUE, out |-> EmptyFrame, files |-> {}]
      [] response = "not_a_table" -> [raised |-> FALSE, out |-> t, files |-> {}]
      [] response = "table" -> [raised |-> FALSE, out |-> answer, files |-> {"cleaned"}]

\* ai_clean(df) of ai_cleaner_local.py on a table with none of the columns
\* 'Age', 'Salary', 'City', 'Joining_Date': the steps on those columns are
\* skipped, the duplicates are dropped, the result is saved
local_ai_clean(t) ==
    [raised |-> FALSE, out |-> DropDuplicates(t), files |-> {"cleaned"}]

\* the modules the name ai_clean can be bound to by the import of
\* autoetl_agent.py: src.ai_cleaner, or src.ai_cleaner_local when that import
\* raises (pandasai missing; line 55 of ai_cleaner.py, as it stands, does
\* not compile, so that the import raises until the line is repaired)
Bindings == {"ai_cleaner", "ai_cleaner_local"}

\* run_autoetl() of autoetl_agent.py
run_autoetl(t, found, bound, response, answer) ==
    IF ~found THEN RunResult(FALSE, FALSE, <<"load_data">>, {}, EmptyFrame, t)
    ELSE LET called == <<"load_data", "initial_analysis", "ai_clean">>
             c == IF bound = "ai_cleaner" THEN llm_ai_clean(t, response, answer)
                  ELSE local_ai_clean(t)
         IN  IF c.raised                      \* "ETL process halted."
             THEN RunResult(FALSE, FALSE, called, {}, EmptyFrame, t)
             ELSE RunResult(TRUE, FALSE, Append(called, "summarize_cleaning"),
                            c.files \cup {"report"}, c.out, t)

\* the tables of the input file: at least one column
FileTables == SessionTables \ {EmptyFrame}

RunCall(op, arg, res) ==
    [Call(op, arg) EXCEPT !.raised = res.raised, !.out = res.out,
                          !.caller = res.caller, !.ok = res.ok,
                          !.steps = res.steps, !.files = res.files]

InitPipeline ==
    /\ df \in FileTables
    /\ col_types = EmptyDict
    /\ eda_report = EmptyDict
    /\ last = NoCall

\* python run_pipeline.py --input ... [--eda-only] [--use-ai]
RunPipeline ==
    \E found, eda_only, use_ai, writable \in BOOLEAN :
        /\ last' = [RunCall("run_pipeline", df,
                            run_autoetl_custom(df, auto_clean_dataset(df), found,
                                               eda_only, use_ai, writable))
                        EXCEPT !.found = found, !.eda_only = eda_only,
                               !.use_ai = use_ai,
                               !.report = IF found THEN auto_perform_eda(df)
                                          ELSE EmptyDict]
        /\ df' = last'.caller
        /\ UNCHANGED <<col_types, eda_report>>

\* python main.py --input ... [--eda-only]
RunMain ==
    \E found, eda_only, writable \in BOOLEAN :
        /\ col_types' = IF found THEN ColumnTypes(df) ELSE EmptyDict
        /\ eda_report' = IF found THEN perform_eda(df) ELSE EmptyDict
        /\ last' = [RunCall("main", df,
                            main(df, clean_data(df, col_types'), found, eda_only,
                                 writable))
                        EXCEPT !.found = found, !.eda_only = eda_only,
                               !.report = eda_report']
        /\ df' = last'.caller

\* python -m src.autoetl_agent
RunAutoEtl ==
    \E found \in BOOLEAN, bound \in Bindings, response \in Responses,
       answer \in {df, DropDuplicates(df)} :
        /\ last' = [RunCall("run_autoetl", df,
                            run_autoetl(df, found, bound, response, answer))
                        EXCEPT !.found = found, !.bound = bound,
                               !.response = IF bound = "ai_cleaner" THEN response
                                            ELSE "-"]
        /\ df' = last'.caller
        /\ UNCHANGED <<col_types, eda_report>>

NextPipeline == RunPipeline \/ RunMain \/ RunAutoEtl

SpecPipeline == InitPipeline /\ [][NextPipeline]_vars

----------------------------------------------------------------------------
(* Properties                                                              *)

\* the latest call was a cleaning run
Cleaned == last.op \in {"clean", "auto_clean"}
\* ... that returned a table
Returned == Cleaned /\ ~last.raised
\* ... having repaired its table by the classification of that very table
OwnTypes == last.used = ColumnTypes(last.arg)
\* the latest call computed a quality score
Scored == last.op \in {"eda", "auto_eda"}

\* the columns a classification lists under a kind, and under any kind
ListedAs(types, kind) ==
    IF kind \in DOMAIN types THEN Range(types[kind]) ELSE {}
Listed(types) == UNION {ListedAs(types, kind) : kind \in Range(Kinds)}

\* C1: clean is total: whatever the table and the state of the cleaner it is
\* called on, a cleaning run returns a table and never raises.
C1_CleanNeverRaises == Cleaned => ~last.raised

\* C2: clean leaves what the caller passed unchanged: after the call the
\* caller's table holds the rows and cells it held before the call, and the
\* classification map of the cleaner is the one the run read.
C2_InputUnchanged ==
    Cleaned =>
        /\ last.caller = last.arg
        /\ df = last.arg
        /\ (last.op = "clean" => col_types = last.used)

\* a run that removed a duplicate, filled a cell and returned
C2_Witness ==
    /\ Returned
    /\ last.op = "clean"
    /\ NRows(last.out) < NRows(last.arg)
    /\ \E i \in 1..Len(last.log) : last.log[i].stage \in {"numeric", "text"}
    /\ df = last.arg

\* C3: no classification is carried between calls: every cleaning run that
\* repairs its table by a classification repairs it by the one inferred from
\* that same table, never by one computed for another table. (The run with
\* no classification at all is the run of C1.)
C3_OwnClassification == (Cleaned /\ last.used # EmptyDict) => OwnTypes

\* C4: no new absences: in the table a cleaning run returns, a column
\* repaired by stages 2-5 holds no absent value, unless it is a Numeric
\* column that had no non-absent value to begin with.
C4_NoAbsences ==
    (Returned /\ OwnTypes) =>
        \A c \in Listed(last.used) :
            \/ NullCount(Column(last.out, c)) = 0
            \/ /\ c \in ListedAs(last.used, "numeric")
               /\ Present(Column(last.arg, c)) = {}

\* C5: pruning is decided on the absence pattern right after deduplication:
\* the rows returned are the repaired rows of exactly those deduplicated
\* rows at most half of whose cells were absent before any fill.
C5_PrunePreFill ==
    (Returned /\ OwnTypes) =>
        last.out.rows =
            Pick(last.repaired.rows,
                 {i \in 1..NRows(last.dedup) : ~RowMissingOverHalf(last.dedup, i)})

\* C6: the quality score is a number within [0, 100] for every table, the
\* tables with no row or no column and the tables with every cell absent
\* included.
C6_ScoreBounds ==
    Scored =>
        LET q == last.report.quality_score
        IN  q.k = "q" /\ 0 <= q.n /\ q.n <= 100 * q.d

\* a table with rows, every cell absent, and duplicates: the score is 0
C6_Witness ==
    /\ Scored
    /\ NRows(last.arg) > 1
    /\ MissingTotal(last.arg) = NRows(last.arg) * NCols(last.arg)
    /\ last.report.quality_score = FInt(0)

\* rows equal to an earlier row
EarlierEqual(t) ==
    {i \in 1..NRows(t) : \E j \in 1..(i - 1) : t.rows[j] = t.rows[i]}

\* clamp(0, 100, (1 - absent/(rows*columns)) * 100 - (duplicates/rows) * 10),
\* over the common denominator rows*columns
ClampedScore(t) ==
    LET cells == NRows(t) * NCols(t)
        raw == 100 * cells - 100 * MissingTotal(t)
                 - 10 * Cardinality(EarlierEqual(t)) * NCols(t)
    IN  Q(IF raw < 0 THEN 0 ELSE IF raw > 100 * cells THEN 100 * cells ELSE raw,
          cells)

\* C7: for a table with at least one row and one column both scorers return
\* clamp(0, 100, (1 - absent/(rows*columns)) * 100 - (duplicates/rows) * 10).
C7_ScoreFormula ==
    (Scored /\ NRows(last.arg) >= 1 /\ NCols(last.arg) >= 1) =>
        /\ last.report.quality_score = ClampedScore(last.arg)
        /\ QualityScore(last.arg) = AutoQualityScore(last.arg)

\* a scored table with an absent cell and a duplicate row, score above 0
C7_Witness ==
    /\ Scored
    /\ MissingTotal(last.arg) > 0
    /\ last.report.duplicates > 0
    /\ FLt(FInt(0), last.report.quality_score)

\* C8: for a table with no row or no column the score is exactly 100.
C8_EmptyScores100 ==
    (Scored /\ (NRows(last.arg) = 0 \/ NCols(last.arg) = 0)) =>
        last.report.quality_score = FInt(100)

\* the k-th smallest element of a set of integers
KthOf(S, k) == CHOOSE x \in S : Cardinality({y \in S : y <= x}) = k

\* C9: Deduplicate removes exactly the rows equal to an earlier row: the
\* first occurrences survive in their order, and the count reported is the
\* number of rows removed.
C9_Deduplicate ==
    Cleaned =>
        LET rowsIn == last.arg.rows
            rowsOut == last.dedup.rows
            first == (1..Len(rowsIn)) \ EarlierEqual(last.arg)
            removed == Len(rowsIn) - Len(rowsOut)
            reports == {i \in 1..Len(last.log) : last.log[i].stage = "dedup"}
        IN  /\ Len(rowsOut) = Cardinality(first)
            /\ \A k \in 1..Len(rowsOut) : rowsOut[k] = rowsIn[KthOf(first, k)]
            /\ last.dedup.cols = last.arg.cols
            /\ IF removed > 0
               THEN reports = {1} /\ last.log[1].n = removed
               ELSE reports = {}

\* a run whose table held a row, another row, and the first row again
C9_Witness ==
    /\ Cleaned
    /\ NRows(last.arg) = 3
    /\ last.arg.rows[1] = last.arg.rows[3]
    /\ last.arg.rows[1] # last.arg.rows[2]
    /\ NRows(last.dedup) = 2

\* C10: deduplication is idempotent: deduplicating the table stage 1 left
\* yields the same rows.
C10_DedupIdempotent ==
    Cleaned =>
        /\ DropDuplicates(last.dedup).rows = last.dedup.rows
        /\ Cardinality(Duplicated(last.dedup)) = 0

\* a run whose stage 1 removed two rows
C10_Witness ==
    /\ Cleaned
    /\ NRows(last.dedup) + 2 = NRows(last.arg)

\* the most frequent non-absent value of a column, the one met first in row
\* order when several are tied
MostFrequentFirst(s) ==
    LET P == Present(s)
        Count(i) == Cardinality({j \in P : s[j] = s[i]})
        best == {i \in P : \A j \in P : Count(j) <= Count(i)}
    IN  s[CHOOSE i \in best : \A j \in best : i <= j]

\* the action recorded for column c by the stage of that name
ActionsOn(stage, c) ==
    {i \in 1..Len(last.log) : last.log[i].stage = stage /\ last.log[i].col = c}

\* C11: categorical repair fills the absent cells of a Categorical column
\* with the mode of its non-absent values, and on a tie of the maximum
\* frequency with the tied value that occurs first in row order (B for the
\* values B, A, B, A), not with the alphabetically smallest.
C11_ModeFirstInRowOrder ==
    (Returned /\ OwnTypes) =>
        \A c \in ListedAs(last.used, "categorical") :
            LET s == Column(last.dedup, c)
            IN  (NullCount(s) > 0 /\ Present(s) # {}) =>
                    /\ \E i \in ActionsOn("categorical", c) :
                           last.log[i].val = MostFrequentFirst(s)
                    /\ \A i \in 1..Len(s) :
                           IsNull(s[i]) =>
                               last.repaired.rows[i][c] =
                                   Str(Title(Strip(AsStr(MostFrequentFirst(s)))))

\* the median of the non-absent numbers of a column: the middle one of the
\* sorted values, or the mean of the two middle ones
MiddleOf(s) ==
    LET P == Present(s)
        n == Cardinality(P)
        Ranked(k) == CHOOSE v \in {s[i].v : i \in P} :
                         /\ Cardinality({i \in P : s[i].v < v}) < k
                         /\ k <= Cardinality({i \in P : s[i].v <= v})
    IN  (Ranked((n + 1) \div 2) + Ranked(n \div 2 + 1)) \div 2

ParsesAsDate(x) == x.k = "str" /\ ParseDay(x.v) > 0

\* the parsed days of a column, absent where the cell does not parse
ParsedDays(s) ==
    [i \in 1..Len(s) |-> IF ParsesAsDate(s[i]) THEN Num(ParseDay(s[i].v)) ELSE NaN]

\* C13: datetime repair, in both cleaners: in a DateTime column with at least
\* one value that parses as a date, every absent or unparseable entry becomes
\* the median of the parsed dates, and every cell of the result is a
\* YYYY-MM-DD string.
C13_DatetimeRepair ==
    (Returned /\ OwnTypes) =>
        \A c \in ListedAs(last.used, "datetime") :
            LET s == Column(last.dedup, c)
                days == ParsedDays(s)
            IN  Present(days) # {} =>
                    \A i \in 1..Len(s) :
                        last.repaired.rows[i][c] =
                            Str(Strftime(IF ParsesAsDate(s[i]) THEN days[i].v
                                         ELSE MiddleOf(days)))

\* text with no surrounding whitespace, in title case
TrimmedTitle(x) == x.k = "str" /\ Strip(x.v) = x.v /\ Title(x.v) = x.v

\* C14: categorical repair normalizes text: every value of a Categorical
\* column comes out trimmed and title-cased, whatever its casing was, each
\* non-absent value being its own trimmed title-cased form, and a column
\* with no non-absent value holds 'Unknown' in every cell.
C14_CategoricalNormalized ==
    Returned =>
        \A c \in ListedAs(last.used, "categorical") \cap Range(last.arg.cols) :
            LET s == Column(last.dedup, c)
                out == Column(last.repaired, c)
            IN  /\ \A i \in 1..Len(s) : TrimmedTitle(out[i])
                /\ \A i \in Present(s) : out[i] = Str(Title(Strip(AsStr(s[i]))))
                /\ Present(s) = {} => \A i \in 1..Len(s) : out[i] = Str("Unknown")

\* a run that classified its column Categorical, turned ' bob ' into 'Bob'
\* and filled an absent cell
C14_Witness ==
    /\ Returned /\ OwnTypes
    /\ \E c \in ListedAs(last.used, "categorical") :
           \E i, j \in 1..NRows(last.dedup) :
               /\ last.dedup.rows[i][c] = Str(" bob ")
               /\ last.repaired.rows[i][c] = Str("Bob")
               /\ IsNull(last.dedup.rows[j][c])
               /\ last.repaired.rows[j][c] = Str("Bob")

\* a run that repaired as Categorical a column with no non-absent value
C14_WitnessUnknown ==
    /\ Returned
    /\ \E c \in ListedAs(last.used, "categorical") \cap Range(last.arg.cols) :
           /\ NRows(last.dedup) >= 2
           /\ Present(Column(last.dedup, c)) = {}
           /\ \A i \in 1..NRows(last.dedup) :
                  last.repaired.rows[i][c] = Str("Unknown")

\* the latest call was a run with the LLM-backed strategy selected, and that
\* strategy was not there (the import fell to ai_cleaner_local; --use-ai of
\* run_pipeline.py, which has no LLM behind it), raised, or answered with
\* something that is no table
ExternalFailed ==
    \/ last.op = "run_pipeline" /\ last.use_ai
    \/ /\ last.op = "run_autoetl"
       /\ \/ last.bound = "ai_cleaner_local"
          \/ last.response \in {"no_key", "error", "not_a_table"}

\* C15: strategy fallback: a run whose LLM-backed strategy is unavailable,
\* raises or returns no table does not halt and does not hand back the
\* uncleaned input: it calls the deterministic cleaning pipeline and ends
\* with the table that pipeline makes of the input.
C15_StrategyFallback ==
    (ExternalFailed /\ last.found /\ ~last.eda_only) =>
        /\ ~last.raised
        /\ "auto_clean_dataset" \in Range(last.steps)
        /\ last.out = auto_clean_dataset(last.arg).out

\* C17: EDA-only mode: with the eda-only flag set and the input loaded, the
\* run ends right after the analysis of the original table and reports
\* success; no cleaning is invoked, the loaded table is not modified, and no
\* cleaned file, report or visualization is written.
C17_EdaOnly ==
    (last.op \in {"run_pipeline", "main"} /\ last.eda_only /\ last.found) =>
        /\ last.ok /\ ~last.raised
        /\ last.steps # <<>> /\ last.steps[Len(last.steps)] = "perform_eda"
        /\ Range(last.steps) \cap {"clean_data", "auto_clean_dataset", "ai_clean",
                                   "to_csv", "save_results"} = {}
        /\ last.files = {}
        /\ last.out = EmptyFrame
        /\ last.caller = last.arg /\ df = last.arg

\* an eda-only run on a table with an absent cell and a duplicate row: it
\* returned True having analysed the table, which it left as it was
C17_Witness ==
    /\ last.op \in {"run_pipeline", "main"} /\ last.eda_only /\ last.found
    /\ last.ok
    /\ MissingTotal(last.arg) > 0 /\ last.report.duplicates > 0
    /\ df = last.arg
    /\ last.files = {}

\* the classification the latest call computed, if it computed one
Classified == last.op \in {"detect", "auto_clean"}
Classification == IF last.op = "detect" THEN last.types ELSE last.used

\* column c of t as a table of its own
OneColumn(t, c) ==
    Frame(<<c>>, [i \in 1..NRows(t) |-> [x \in {c} |-> t.rows[i][c]]])

\* a kind as a function of the dtype dt and the values s of one column
KindOfValues(dt, s) ==
    CASE dt = "num" -> "numeric"
      [] dt = "dt" -> "datetime"
      [] OTHER ->
           IF \E i \in 1..Len(s) : s[i].k = "obj"
           THEN IF 2 * Cardinality({s[i] : i \in Present(s)}) < Len(s)
                THEN "categorical" ELSE "text"
           ELSE IF \A i \in 1..Len(s) : s[i].k = "str" /\ s[i].v # LongText
                THEN "datetime" ELSE "text"

\* C16: classification determinism: the kind infer gives a column is a
\* function of the values of that column in their order: the same on every
\* call, whatever the cleaner object was called on before and whatever the
\* other columns of the table hold.
C16_Deterministic ==
    Classified =>
        \A c \in Range(last.arg.cols) :
            /\ c \in ListedAs(Classification,
                              KindOfValues(last.arg.dtype[c], Column(last.arg, c)))
            /\ c \in ListedAs(Classification,
                              ColumnKind(OneColumn(last.arg, c), c))

\* a detection by a cleaner that held, from an earlier call, another kind
\* for a column of that name, on a table of two columns
C16_Witness ==
    /\ last.op = "detect"
    /\ NCols(last.arg) = 2 /\ NRows(last.arg) >= 1
    /\ \E c \in Range(last.arg.cols) :
           /\ c \in ListedAs(last.held, "text")
           /\ c \in ListedAs(last.types, "datetime")

\* C18: infer is total and yields a partition: it returns a classification
\* with the four kinds in which every column of the table is listed exactly
\* once, under exactly one kind, and no other name is listed.
C18_Partition ==
    Classified =>
        /\ ~last.raised \/ last.op = "auto_clean"
        /\ DOMAIN Classification = Range(Kinds)
        /\ \A c \in Range(last.arg.cols) :
               Cardinality({<<k, i>> \in Range(Kinds) \X (1..NCols(last.arg)) :
                               /\ i <= Len(Classification[k])
                               /\ Classification[k][i] = c}) = 1
        /\ \A k \in Range(Kinds) :
               Range(Classification[k]) \subseteq Range(last.arg.cols)

\* a detection on a table of a numeric column and a text column with rows
C18_Witness ==
    /\ last.op = "detect"
    /\ NRows(last.arg) >= 2
    /\ last.types["numeric"] = <<"a">>
    /\ last.types["text"] = <<"b">>

\* the non-absent cells of column c of the classified table, and whether
\* each parses as a date and has fewer than 50 characters
PresentCells(c) ==
    {last.arg.rows[i][c] : i \in Present(Column(last.arg, c))}
AllDates(c) ==
    \A x \in PresentCells(c) : ParsesAsDate(x) /\ ShortStr(x.v)

\* C19: a column is classified DateTime only if it is not Numeric and every
\* non-absent value parses as a date and is shorter than 50 characters (so
\* never with a non-absent value that does not parse), and absent cells do
\* not prevent the classification: a non-numeric column whose non-absent
\* values (at least one) all parse and are short is DateTime.
C19_DatetimeOnlyDates ==
    Classified =>
        \A c \in Range(last.arg.cols) :
            /\ c \in ListedAs(Classification, "datetime") =>
                   last.arg.dtype[c] # "num" /\ AllDates(c)
            /\ (last.arg.dtype[c] # "num" /\ PresentCells(c) # {} /\ AllDates(c))
                   => c \in ListedAs(Classification, "datetime")

\* C20: a non-numeric column with a value that does not parse as a date is
\* Categorical exactly when its number of distinct non-absent values is
\* strictly less than half the row count, and Text otherwise.
C20_CategoricalOrText ==
    Classified =>
        \A c \in Range(last.arg.cols) :
            (last.arg.dtype[c] # "num"
                /\ \E x \in PresentCells(c) : ~ParsesAsDate(x)) =>
                IF 2 * Cardinality(PresentCells(c)) < NRows(last.arg)
                THEN c \in ListedAs(Classification, "categorical")
                ELSE c \in ListedAs(Classification, "text")

\* C21: a column whose values are all absent, in a table with at least one
\* row, is classified neither Numeric nor DateTime: it falls through to the
\* cardinality rule and is classified Categorical.
C21_AllAbsentCategorical ==
    Classified =>
        \A c \in Range(last.arg.cols) :
            (NRows(last.arg) >= 1 /\ Present(Column(last.arg, c)) = {}) =>
                c \in ListedAs(Classification, "categorical")

\* the place of a recorded action's stage in the order of the six stages
StageRank(stage) ==
    CASE stage = "dedup" -> 1
      [] stage = "numeric" -> 2
      [] stage = "categorical" -> 3
      [] stage \in {"datetime", "could not parse"} -> 4
      [] stage = "text" -> 5
      [] stage = "prune" -> 6

\* no record of a later stage precedes a record of an earlier stage
RecordsInStageOrder ==
    \A i, j \in 1..Len(last.log) :
        i < j => StageRank(last.log[i].stage) <= StageRank(last.log[j].stage)

\* the columns whose cells the repairs of stages 2 to 5 changed
ColumnsChanged ==
    {c \in Range(last.dedup.cols) : Column(last.repaired, c) # Column(last.dedup, c)}

\* C22: the six stages run in the order Deduplicate, Numeric, Categorical,
\* DateTime, Text repair, Row-sparsity pruning, and the actions recorded by a
\* run appear in that order: no record of a later stage precedes a record of
\* an earlier stage, and every repair that changed cells or rows has a
\* record (a removal of duplicates, a removal of sparse rows, and for each
\* column whose cells changed a record naming that column).
C22_StageOrderAndRecords ==
    Returned =>
        /\ RecordsInStageOrder
        /\ NRows(last.dedup) < NRows(last.arg) =>
               \E i \in 1..Len(last.log) : last.log[i].stage = "dedup"
        /\ NRows(last.out) < NRows(last.repaired) =>
               \E i \in 1..Len(last.log) : last.log[i].stage = "prune"
        /\ \A c \in ColumnsChanged :
               \E i \in 1..Len(last.log) : last.log[i].col = c

\* C23: a DateTime column (of a table with a row) in which no value parses
\* as a date is left unmodified by the cleaning, every cell keeping its
\* original value, and the run records a 'could not parse' warning for that
\* column.
C23_UnparseableLeftAlone ==
    (Returned /\ OwnTypes) =>
        \A c \in ListedAs(last.used, "datetime") :
            LET s == Column(last.dedup, c)
            IN  (Len(s) >= 1 /\ Present(ParsedDays(s)) = {}) =>
                    /\ Column(last.repaired, c) = s
                    /\ ActionsOn("could not parse", c) # {}

\* the earlier of the two central values of the non-absent numbers of a
\* column, the central one when their number is odd
EarlierCentral(s) ==
    LET P == Present(s)
        n == Cardinality(P)
    IN  CHOOSE v \in {s[i].v : i \in P} :
            /\ Cardinality({i \in P : s[i].v < v}) < (n + 1) \div 2
            /\ (n + 1) \div 2 <= Cardinality({i \in P : s[i].v <= v})

\* C24: in datetime repair the fill value is the median of the parsed dates
\* in chronological order, the earlier of the two central dates when their
\* number is even, so that each cell datetime repair filled holds one of the
\* dates present in the column.
C24_FillIsEarlierCentralDate ==
    (Returned /\ OwnTypes) =>
        \A c \in ListedAs(last.used, "datetime") :
            LET s == Column(last.dedup, c)
                days == ParsedDays(s)
            IN  \A i \in 1..Len(s) :
                    (~ParsesAsDate(s[i]) /\ last.repaired.rows[i][c].k = "str") =>
                        /\ last.repaired.rows[i][c] =
                               Str(Strftime(EarlierCentral(days)))
                        /\ \E j \in 1..Len(s) : s[j] = last.repaired.rows[i][c]

\* C25: when a Numeric column (of a table with a row) has no non-absent
\* value, numeric repair is skipped for it: the column is left unmodified,
\* the run continues to the last stage, and what is recorded for the column
\* is a warning, not a report that missing values were filled.
C25_AllAbsentNumericSkipped ==
    (Cleaned /\ OwnTypes) =>
        \A c \in ListedAs(last.used, "numeric") :
            LET s == Column(last.dedup, c)
            IN  (Len(s) >= 1 /\ Present(s) = {}) =>
                    /\ ~last.raised /\ last.reachedPrune
                    /\ Column(last.repaired, c) = s
                    /\ ActionsOn("numeric", c) = {}
                    /\ \E i \in 1..Len(last.log) :
                           /\ last.log[i].col = c
                           /\ last.log[i].stage \notin
                                  {"numeric", "categorical", "datetime", "text"}

\* the tables after the six stages of the run last made
StagesOfRun ==
    IF last.op = "clean" THEN StagesOfClean(last.arg, last.used)
    ELSE StagesOfAutoClean(last.arg)

\* whether s is t with some entries left out, the others in their order
IsSubsequence(s, t) == \E keep \in SUBSET (1..Len(t)) : Pick(t, keep) = s

\* the columns stage k of the run last made repairs
ColumnsOfStage(k) ==
    Range(last.used[CASE k = 2 -> "numeric" [] k = 3 -> "categorical"
                      [] k = 4 -> "datetime" [] k = 5 -> "text"])

=============================================================================
